---- MODULE Spec2Model ----
(***************************************************************************)
(* mysql2sqlite: one mirror run of mysql2sqlite.py, statement by           *)
(* statement, against a model of the two database connections it drives.   *)
(*                                                                         *)
(* The destination is modelled the way the sqlite3 driver presents it:     *)
(*   disk   the committed state, what any other connection sees            *)
(*   work   the state as seen through sqlite_connection (committed state   *)
(*          plus the changes of its open transaction)                      *)
(*   inTxn  whether sqlite_connection has an open transaction              *)
(***************************************************************************)
EXTENDS Integers, Sequences, FiniteSets, TLC

\* ------------------------------------------------------------------ bounds
MaxRows == 2        \* longest result set of the source read of "users"
MaxStale == 1       \* most rows a destination table holds before the first run

\* ------------------------------------------------------------ the catalog
\* query_settings.queries: section name -> {field -> SQL text}, in file order.
TableOrder == <<"users", "domains">>
Tables == {TableOrder[n] : n \in 1..Len(TableOrder)}
OtherTable == "other"                 \* a destination table no section names
DestTables == Tables \cup {OtherTable}
RequiredFields == {"read", "new", "write"}
AllFields == RequiredFields \cup {"index"}

\* ------------------------------------------------------------------- rows
\* a destination table: absent, or present with its rows in rowid order
NoTable == [exists |-> FALSE, rows |-> <<>>]
TableOf(rows) == [exists |-> TRUE, rows |-> rows]
RowsOf(t) ==
    IF t = "users" THEN {<<1, "a">>, <<2, "b">>} ELSE {<<3, "c">>}
StaleOf(t) ==
    IF t = "users" THEN {<<9, "Old">>, <<1, "a">>} ELSE {<<9, "Old">>}

SeqsUpTo(S, n) == UNION {[1..m -> S] : m \in 0..n}
LimitOf(t) == IF t = "users" THEN MaxRows ELSE MaxRows - 1

Range(s) == {s[n] : n \in 1..Len(s)}
NoTables == [t \in DestTables |-> NoTable]

VARIABLES
    \* inputs of the run, fixed from Init on
    queries,          \* section -> set of the fields the section defines
    source,           \* MySQL table -> the rows its read query returns
    fail_on_warnings, \* general_settings.flags['fail_on_warnings']
    create_directories,
    legacyDDL,        \* Python < 3.6: sqlite3 commits before DDL, and a dict
                      \* is iterated in an order of the interpreter's choosing
    emptyIndex,       \* sections whose 'index' field is there with no text
    promptFinalize,   \* the interpreter frees an object with its last reference
    \* the filesystem
    dirExists, dirWritable, fileExists, fileWritable,
    \* the destination
    disk, work, inTxn, isolation_level,
    \* the script's own state
    pc, exitStatus, rerun,
    SQLITE_DB_IS_NEW, SQLITE_DB_MISSING_TABLES, DROP_TABLES,
    tableIdx,         \* position of the for loop in query_settings.queries
    cursorResult,     \* what mysql_cursor holds after execute()
    mysql_data, rowIdx,
    mysqlOpen, sqliteOpen, mysqlClosed, sqliteClosed,
    \* history of the run
    log,              \* statements handed to either connection, in order
    preDisk,          \* committed destination state when the run started
    startTables,      \* number of destination tables when the run started
    importCount, commitCount, warned, failed,
    dirExisted, fileExisted,  \* base_dir and db_file when the run started
    verified,         \* verify_sqlite_storage was called in this run
    probeOpen,        \* connections of sqlite_db_has_tables not released yet
    iterOrder,        \* the order in which query_settings.queries is iterated
    errorLogged       \* the fatal condition went through log.* before the exit

inputs == <<queries, source, fail_on_warnings, create_directories, legacyDDL,
            emptyIndex, promptFinalize>>
fsVars == <<dirExists, dirWritable, fileExists, fileWritable>>
destVars == <<disk, work, inTxn>>
flagVars == <<SQLITE_DB_IS_NEW, SQLITE_DB_MISSING_TABLES, DROP_TABLES>>
loopVars == <<tableIdx, cursorResult, mysql_data, rowIdx>>
connVars == <<mysqlOpen, sqliteOpen, mysqlClosed, sqliteClosed>>
histVars == <<preDisk, startTables, dirExisted, fileExisted, importCount, commitCount, warned>>
auxVars == <<verified, probeOpen, iterOrder>>

vars == <<inputs, fsVars, destVars, isolation_level, pc, exitStatus, rerun,
          flagVars, loopVars, connVars, log, histVars, failed, auxVars,
          errorLogged>>

\* ---------------------------------------------------------------- helpers
\* lib: QuerySettings copies the sections, in the order of the file, into the
\* plain dict self.queries; 'for table in query_settings.queries' follows the
\* order of insertion from Python 3.6 on and any order before.
IterationOrders ==
    IF legacyDDL
    THEN {s \in [1..Len(TableOrder) -> Tables] :
            \A i, j \in 1..Len(TableOrder) : s[i] = s[j] => i = j}
    ELSE {TableOrder}

\* lib: sqlite_db_has_tables counts the rows of sqlite_master of a connection
\* of its own, so it sees the committed state only.
TableCount(d) == Cardinality({t \in DestTables : d[t] # NoTable})
sqlite_db_has_tables(d) == TableCount(d) # 0

\* 'index' in queries[table] and queries[table]['index'] is not None
HasIndex(t) == "index" \in queries[t]

\* the 'index' field of the section holds SQL text ("index =" yields '')
IndexHasContent(t) == "index" \in queries[t] /\ t \notin emptyIndex

\* an empty statement does nothing and raises nothing
CanRaise(s) == ~(s.op \in {"index", "script_index"} /\ s.table \in emptyIndex)

Stmt(conn, op, t, row, ok) ==
    [conn |-> conn, op |-> op, table |-> t, row |-> row, ok |-> ok]
NoRow == <<>>

\* --------------------------------------------- the sqlite3 driver's rules
Autocommit == isolation_level = "None"

\* cursor.execute of a DDL statement (DROP TABLE, CREATE TABLE, CREATE INDEX)
\* whose effect on the connection's view is w2.  The driver opens no
\* transaction for DDL: outside a transaction SQLite commits the statement on
\* its own; inside one the statement joins it, except that the driver of
\* Python < 3.6 commits the open transaction first.
ExecDDL(w2) ==
    IF inTxn /\ ~legacyDDL
    THEN [disk |-> disk, work |-> w2, inTxn |-> TRUE]
    ELSE [disk |-> w2, work |-> w2, inTxn |-> FALSE]

\* the same statement raising sqlite3.Error: only the implicit COMMIT of the
\* old driver has happened
FailDDL ==
    IF inTxn /\ legacyDDL
    THEN [disk |-> work, work |-> work, inTxn |-> FALSE]
    ELSE [disk |-> disk, work |-> work, inTxn |-> inTxn]

\* cursor.execute of an INSERT: the driver issues BEGIN first unless
\* isolation_level is None
ExecDML(w2) ==
    IF Autocommit
    THEN [disk |-> w2, work |-> w2, inTxn |-> FALSE]
    ELSE [disk |-> disk, work |-> w2, inTxn |-> TRUE]

\* effects of the statements the script issues
DropTableIfExists(w, t) == [w EXCEPT ![t] = NoTable]
CreateTable(w, t) == [w EXCEPT ![t] = TableOf(<<>>)]
\* a write statement that replaces the table's rows by the new one
InsertRowReplacing(w, t, r) == [w EXCEPT ![t] = TableOf(<<r>>)]
InsertRow(w, t, r) == [w EXCEPT ![t] = TableOf(Append(w[t].rows, r))]

\* ------------------------------------------------------ lib: schema import
\* import_sqlite_db_schema builds one script: for every section in order its
\* 'new' statement and, when the section has one, its 'index' statement.
RECURSIVE SchemaScript(_)
SchemaScript(n) ==
    IF n = 0 THEN <<>>
    ELSE LET t == iterOrder[n]
         IN SchemaScript(n - 1)
              \o <<Stmt("sqlite", "script_create", t, NoRow, TRUE)>>
              \o (IF HasIndex(t)
                  THEN <<Stmt("sqlite", "script_index", t, NoRow, TRUE)>>
                  ELSE <<>>)
sqlite_db_schema == SchemaScript(Len(TableOrder))

\* building the script reads queries[table]['new'] of every section
SchemaKeyError == \E t \in Tables : "new" \notin queries[t]

\* the view after the first k statements of the script
RECURSIVE RunScript(_, _, _)
RunScript(w, script, k) ==
    IF k = 0 THEN w
    ELSE LET w1 == RunScript(w, script, k - 1)
             s == script[k]
         IN IF s.op = "script_create" THEN CreateTable(w1, s.table) ELSE w1

\* CREATE TABLE of a table that exists raises; any statement may raise
CanRun(w, script, k) ==
    \A m \in 1..k :
        script[m].op = "script_create"
            => RunScript(w, script, m - 1)[script[m].table] = NoTable

\* ------------------------------------------------------------ input space
FullSection == AllFields
WellFormed ==
    {q \in [Tables -> SUBSET AllFields] : \A t \in Tables : RequiredFields \subseteq q[t]}
\* catalogs in which one section lacks one required field
Malformed ==
    {[t \in Tables |-> IF t = u THEN AllFields \ {f} ELSE FullSection] :
        u \in Tables, f \in RequiredFields}

Sources == [Tables -> UNION {SeqsUpTo(RowsOf(t), LimitOf(t)) : t \in Tables}]
SourceData == {s \in Sources : \A t \in Tables : s[t] \in SeqsUpTo(RowsOf(t), LimitOf(t))}

\* committed destination states of an existing file before the first run
InitialDisks ==
    {d \in [DestTables -> {NoTable} \cup
                UNION {{TableOf(s) : s \in SeqsUpTo(StaleOf(t), MaxStale)} : t \in Tables}] :
        /\ \A t \in Tables : d[t] = NoTable \/ d[t].rows \in SeqsUpTo(StaleOf(t), MaxStale)
        /\ d[OtherTable] \in {NoTable, TableOf(<<>>)}}

FullSource == [t \in Tables |-> IF t = "users" THEN <<<<1, "a">>, <<2, "b">>>> ELSE <<<<3, "c">>>>]
StaleDisk ==
    [t \in DestTables |-> IF t = OtherTable THEN NoTable ELSE TableOf(<<<<9, "Old">>>>)]

\* the state of a process that has not run a statement yet
Fresh ==
    /\ pc = "start" /\ exitStatus = -1 /\ rerun = FALSE
    /\ SQLITE_DB_IS_NEW = FALSE /\ SQLITE_DB_MISSING_TABLES = FALSE
    /\ DROP_TABLES = FALSE
    /\ tableIdx = 1 /\ cursorResult = <<>> /\ mysql_data = <<>> /\ rowIdx = 1
    /\ mysqlOpen = FALSE /\ sqliteOpen = FALSE
    /\ mysqlClosed = FALSE /\ sqliteClosed = FALSE
    /\ log = <<>> /\ importCount = 0 /\ commitCount = 0
    /\ warned = FALSE /\ failed = "none"
    /\ work = disk /\ inTxn = FALSE
    /\ preDisk = disk /\ startTables = TableCount(disk)
    /\ dirExisted = dirExists /\ fileExisted = fileExists
    /\ verified = FALSE /\ probeOpen = 0 /\ errorLogged = FALSE
    /\ iterOrder = <<>>

\* an existing database file: any catalog without gaps, any source data
InitExisting ==
    /\ fileExists = TRUE /\ dirExists = TRUE /\ dirWritable = TRUE
    /\ fileWritable = TRUE
    /\ create_directories = FALSE
    /\ fail_on_warnings \in BOOLEAN
    /\ queries = [t \in Tables |-> FullSection]
    /\ source \in SourceData
    /\ disk \in InitialDisks
    /\ legacyDDL \in BOOLEAN
    /\ emptyIndex = {}

\* no database file yet: every state of the directory and of the flags
InitAbsent ==
    /\ fileExists = FALSE /\ fileWritable = FALSE /\ disk = NoTables
    /\ dirExists \in BOOLEAN /\ dirWritable \in BOOLEAN
    /\ (~dirExists => ~dirWritable)
    /\ create_directories \in BOOLEAN
    /\ fail_on_warnings \in BOOLEAN
    /\ queries = [t \in Tables |-> FullSection]
    /\ source \in SourceData
    /\ legacyDDL \in BOOLEAN
    /\ emptyIndex = {}

\* every shape of catalog, on one source and three destinations
InitCatalogs ==
    /\ dirExists = TRUE /\ dirWritable = TRUE
    /\ create_directories = FALSE /\ fail_on_warnings = FALSE
    /\ queries \in WellFormed \cup Malformed
    /\ source \in {FullSource, [t \in Tables |-> <<>>]}
    /\ \/ fileExists = FALSE /\ fileWritable = FALSE /\ disk = NoTables
       \/ fileExists = TRUE /\ fileWritable \in BOOLEAN
            /\ disk \in {NoTables, StaleDisk}
    /\ legacyDDL \in BOOLEAN
    /\ emptyIndex \in SUBSET {t \in Tables : "index" \in queries[t]}

Init ==
    /\ isolation_level = ""          \* sqlite3.connect's default
    /\ (InitExisting \/ InitAbsent \/ InitCatalogs)
    /\ promptFinalize \in BOOLEAN
    /\ Fresh

\* the driver handing back a connection in autocommit mode
InitAutocommit ==
    /\ isolation_level \in {"", "None"}
    /\ (InitExisting \/ InitAbsent \/ InitCatalogs)
    /\ promptFinalize \in BOOLEAN
    /\ Fresh

\* ------------------------------------------------------------ termination
\* The process ends with `status`, leaving `d` committed; whatever the open
\* transaction held is rolled back with the connection.
Abort(d, status, why, logged) ==
    /\ pc' = "exit" /\ exitStatus' = status /\ failed' = why
    /\ errorLogged' = logged
    /\ disk' = d /\ work' = d /\ inTxn' = FALSE

Running(at) == pc = at

\* -------------------------------------------------- mysql2sqlite.py 160-217
\* GeneralSettings / QuerySettings: the sections are copied as they are
LoadSettings ==
    /\ Running("start")
    /\ pc' = "open_mysql"
    /\ UNCHANGED <<inputs, fsVars, destVars, isolation_level, exitStatus, rerun,
                   flagVars, loopVars, connVars, log, histVars, failed>>
    /\ iterOrder' \in IterationOrders
    /\ UNCHANGED <<verified, probeOpen>>
    /\ UNCHANGED errorLogged

\* no config file could be read: IOError, not caught
LoadSettingsFails ==
    /\ Running("start")
    /\ Abort(disk, 1, "config", TRUE)
    /\ UNCHANGED <<inputs, fsVars, isolation_level, rerun,
                   flagVars, loopVars, connVars, log, histVars>>
    /\ UNCHANGED auxVars
open_db_connection ==
    /\ Running("open_mysql")
    /\ mysqlOpen' = TRUE
    /\ pc' = "check_new"
    /\ UNCHANGED <<inputs, fsVars, destVars, isolation_level, exitStatus, rerun,
                   flagVars, loopVars, sqliteOpen, mysqlClosed, sqliteClosed,
                   log, histVars, failed>>
    /\ UNCHANGED auxVars
    /\ UNCHANGED errorLogged
open_db_connection_fails ==
    /\ Running("open_mysql")
    /\ Abort(disk, 1, "connect_mysql", TRUE)
    /\ UNCHANGED <<inputs, fsVars, isolation_level, rerun,
                   flagVars, loopVars, connVars, log, histVars>>
    /\ UNCHANGED auxVars

\* the storage check made whether or not the file is there
CheckIsNewAlways ==
    /\ Running("check_new")
    /\ SQLITE_DB_IS_NEW' = ~fileExists
    /\ pc' = "verify"
    /\ UNCHANGED <<inputs, fsVars, destVars, isolation_level, exitStatus, rerun,
                   SQLITE_DB_MISSING_TABLES, DROP_TABLES, loopVars, connVars,
                   log, histVars, failed>>
    /\ UNCHANGED auxVars
    /\ UNCHANGED errorLogged

\* SQLITE_DB_IS_NEW = not os.path.exists(db_file)
CheckIsNew ==
    /\ Running("check_new")
    /\ SQLITE_DB_IS_NEW' = ~fileExists
    /\ pc' = IF ~fileExists THEN "verify" ELSE "connect"
    /\ UNCHANGED <<inputs, fsVars, destVars, isolation_level, exitStatus, rerun,
                   SQLITE_DB_MISSING_TABLES, DROP_TABLES, loopVars, connVars,
                   log, histVars, failed>>
    /\ UNCHANGED auxVars
    /\ UNCHANGED errorLogged

\* variant: a missing directory is created even when fail_on_warnings is set
VerifyOutcomeIgnoresFlag ==
    IF ~dirExists
    THEN IF create_directories THEN "makedirs" ELSE "exit"
    ELSE IF fileExists
         THEN IF ~fileWritable THEN "exit" ELSE "return"
         ELSE IF ~dirWritable THEN "exit" ELSE "return"

\* lib: verify_sqlite_storage; "return", "makedirs" or "exit"
VerifyOutcome ==
    IF ~dirExists
    THEN IF fail_on_warnings THEN "exit"
         ELSE IF create_directories THEN "makedirs" ELSE "exit"
    ELSE IF fileExists
         THEN IF ~fileWritable THEN "exit" ELSE "return"
         ELSE IF ~dirWritable THEN "exit" ELSE "return"

verify_sqlite_storage ==
    /\ Running("verify")
    /\ verified' = TRUE /\ UNCHANGED <<probeOpen, iterOrder>>
    /\ \E makedirsOk \in BOOLEAN :
         IF VerifyOutcome = "return" \/ (VerifyOutcome = "makedirs" /\ makedirsOk)
         THEN /\ pc' = "connect"
              /\ dirExists' = TRUE
              /\ dirWritable' = (IF dirExists THEN dirWritable ELSE TRUE)
              /\ UNCHANGED <<fileExists, fileWritable, destVars, exitStatus, failed,
                             errorLogged>>
         ELSE /\ Abort(disk, 1, "storage", TRUE)
              /\ UNCHANGED fsVars
    /\ UNCHANGED <<inputs, isolation_level, rerun, flagVars, loopVars, connVars,
                   log, histVars>>

\* sqlite3.connect(db_file) creates the file when there is none
ConnectSqlite ==
    /\ Running("connect")
    /\ sqliteOpen' = TRUE
    /\ fileExists' = TRUE
    /\ fileWritable' = (IF fileExists THEN fileWritable ELSE TRUE)
    /\ pc' = "probe1"
    /\ UNCHANGED <<inputs, dirExists, dirWritable, destVars, isolation_level,
                   exitStatus, rerun, flagVars, loopVars, mysqlOpen, mysqlClosed,
                   sqliteClosed, log, histVars, failed>>
    /\ UNCHANGED auxVars
    /\ UNCHANGED errorLogged
ConnectSqliteFails ==
    /\ Running("connect")
    /\ Abort(disk, 1, "connect_sqlite", TRUE)
    /\ UNCHANGED <<inputs, fsVars, isolation_level, rerun,
                   flagVars, loopVars, connVars, log, histVars>>
    /\ UNCHANGED auxVars

\* -------------------------------------------------- mysql2sqlite.py 220-296
\* lib: sqlite_db_has_tables opens a connection of its own and returns
\* without closing it: the connection goes when the interpreter finalizes
\* the object, at the return with reference counting, later otherwise.
ProbeLeft == IF promptFinalize THEN 0 ELSE 1

\* first probe: SQLITE_DB_MISSING_TABLES
Probe1 ==
    /\ Running("probe1")
    /\ SQLITE_DB_MISSING_TABLES' = ~sqlite_db_has_tables(disk)
    /\ probeOpen' = probeOpen + ProbeLeft /\ UNCHANGED <<verified, iterOrder>>
    /\ pc' = "import"
    /\ UNCHANGED <<inputs, fsVars, destVars, isolation_level, exitStatus, rerun,
                   SQLITE_DB_IS_NEW, DROP_TABLES, loopVars, connVars,
                   log, histVars, failed>>
    /\ UNCHANGED errorLogged

\* the import gated on the file being new alone
ShouldImportNewOnly == SQLITE_DB_IS_NEW

\* if SQLITE_DB_IS_NEW or SQLITE_DB_MISSING_TABLES
ShouldImport == SQLITE_DB_IS_NEW \/ SQLITE_DB_MISSING_TABLES

\* lib: import_sqlite_db_schema.  executescript commits what is pending and
\* runs the statements one by one outside any transaction: the first k take
\* effect and are committed; statement k+1, when there is one, raises.
import_sqlite_db_schema ==
    /\ Running("import") /\ ShouldImport /\ ~SchemaKeyError
    /\ importCount' = importCount + 1
    /\ \E k \in 0..Len(sqlite_db_schema) :
         /\ CanRun(work, sqlite_db_schema, k)
         /\ (k > 0 => fileWritable)
         /\ LET w2 == RunScript(work, sqlite_db_schema, k)
                done == SubSeq(sqlite_db_schema, 1, k)
            IN IF k = Len(sqlite_db_schema)
               THEN /\ disk' = w2 /\ work' = w2 /\ inTxn' = FALSE
                    /\ log' = log \o done
                    /\ pc' = "autocommit"
                    /\ UNCHANGED <<exitStatus, failed, errorLogged>>
               ELSE /\ CanRaise(sqlite_db_schema[k + 1])
                    /\ log' = log \o done
                        \o <<[sqlite_db_schema[k + 1] EXCEPT !.ok = FALSE]>>
                    /\ Abort(w2, 1, "import", TRUE)
    /\ UNCHANGED <<inputs, fsVars, isolation_level, rerun, flagVars, loopVars,
                   connVars, preDisk, startTables, dirExisted, fileExisted, commitCount, warned>>
    /\ UNCHANGED auxVars

\* queries[table]['new'] of a section without it: KeyError, not caught
import_sqlite_db_schema_KeyError ==
    /\ Running("import") /\ ShouldImport /\ SchemaKeyError
    /\ importCount' = importCount + 1
    /\ Abort(disk, 1, "keyerror", FALSE)
    /\ UNCHANGED <<inputs, fsVars, isolation_level, rerun, flagVars, loopVars,
                   connVars, log, preDisk, startTables, dirExisted, fileExisted, commitCount, warned>>
    /\ UNCHANGED auxVars
SkipImport ==
    /\ Running("import") /\ ~ShouldImport
    /\ pc' = "autocommit"
    /\ UNCHANGED <<inputs, fsVars, destVars, isolation_level, exitStatus, rerun,
                   flagVars, loopVars, connVars, log, histVars, failed>>
    /\ UNCHANGED auxVars
    /\ UNCHANGED errorLogged

\* "Verify that autocommit is turned off": a warning at most, and only when
\* fail_on_warnings is set; the script goes on either way
CheckAutocommit ==
    /\ Running("autocommit")
    /\ warned' = (isolation_level = "None" /\ fail_on_warnings)
    /\ pc' = "probe2"
    /\ UNCHANGED <<inputs, fsVars, destVars, isolation_level, exitStatus, rerun,
                   flagVars, loopVars, connVars, log, preDisk, startTables, dirExisted, fileExisted,
                   importCount, commitCount, failed>>
    /\ UNCHANGED auxVars
    /\ UNCHANGED errorLogged

\* a drop policy that never drops
DropDecisionNever(d) == FALSE

\* the decision taken from the tables the run started with
DropDecisionFromStart(d) == sqlite_db_has_tables(preDisk)

\* DROP_TABLES: the second probe of the committed state
DropDecision(d) == sqlite_db_has_tables(d)

Probe2 ==
    /\ Running("probe2")
    /\ DROP_TABLES' = DropDecision(disk)
    /\ probeOpen' = probeOpen + ProbeLeft /\ UNCHANGED <<verified, iterOrder>>
    /\ tableIdx' = 1
    /\ pc' = "loop"
    /\ UNCHANGED <<inputs, fsVars, destVars, isolation_level, exitStatus, rerun,
                   SQLITE_DB_IS_NEW, SQLITE_DB_MISSING_TABLES, cursorResult,
                   mysql_data, rowIdx, connVars, log, histVars, failed>>
    /\ UNCHANGED errorLogged

\* -------------------------------------------------- mysql2sqlite.py 301-367
InLoop == Running("loop") /\ tableIdx <= Len(TableOrder)
table == iterOrder[tableIdx]

Keep(c) == /\ disk' = c.disk /\ work' = c.work /\ inTxn' = c.inTxn

loopRest == <<inputs, fsVars, isolation_level, rerun, flagVars, connVars, histVars>>

\* mysql_cursor.execute(queries[table]['read'])
ReadSource ==
    /\ InLoop /\ "read" \in queries[table]
    /\ cursorResult' = source[table]
    /\ log' = Append(log, Stmt("mysql", "read", table, NoRow, TRUE))
    /\ pc' = IF DROP_TABLES THEN "drop" ELSE "fetch"
    /\ UNCHANGED <<loopRest, destVars, exitStatus, failed, tableIdx, mysql_data, rowIdx>>
    /\ UNCHANGED auxVars
    /\ UNCHANGED errorLogged

\* the read raising mysql.Error: not caught
ReadSourceFails ==
    /\ InLoop /\ "read" \in queries[table]
    /\ log' = Append(log, Stmt("mysql", "read", table, NoRow, FALSE))
    /\ Abort(disk, 1, "read", FALSE)
    /\ UNCHANGED <<loopRest, loopVars>>
    /\ UNCHANGED auxVars
ReadSourceKeyError ==
    /\ InLoop /\ "read" \notin queries[table]
    /\ Abort(disk, 1, "keyerror", FALSE)
    /\ UNCHANGED <<loopRest, loopVars, log>>
    /\ UNCHANGED auxVars

\* the recreation branch left out: straight on to the rows
DropTableSkipped ==
    /\ Running("drop")
    /\ pc' = "fetch"
    /\ UNCHANGED <<loopRest, loopVars, destVars, exitStatus, failed, log>>
    /\ UNCHANGED auxVars
    /\ UNCHANGED errorLogged

\* sqlite_cursor.execute('DROP TABLE IF EXISTS {}'.format(table))
DropTable ==
    /\ Running("drop") /\ fileWritable
    /\ Keep(ExecDDL(DropTableIfExists(work, table)))
    /\ log' = Append(log, Stmt("sqlite", "drop", table, NoRow, TRUE))
    /\ pc' = "create"
    /\ UNCHANGED <<loopRest, loopVars, exitStatus, failed>>
    /\ UNCHANGED auxVars
    /\ UNCHANGED errorLogged
DropTableFails ==
    /\ Running("drop")
    /\ log' = Append(log, Stmt("sqlite", "drop", table, NoRow, FALSE))
    /\ Abort(FailDDL.disk, 1, "drop", TRUE)
    /\ UNCHANGED <<loopRest, loopVars>>
    /\ UNCHANGED auxVars

\* sqlite_cursor.execute(queries[table]['new'])
RecreateTable ==
    /\ Running("create") /\ "new" \in queries[table]
    /\ fileWritable /\ work[table] = NoTable
    /\ Keep(ExecDDL(CreateTable(work, table)))
    /\ log' = Append(log, Stmt("sqlite", "create", table, NoRow, TRUE))
    /\ pc' = "index"
    /\ UNCHANGED <<loopRest, loopVars, exitStatus, failed>>
    /\ UNCHANGED auxVars
    /\ UNCHANGED errorLogged
RecreateTableFails ==
    /\ Running("create") /\ "new" \in queries[table]
    /\ log' = Append(log, Stmt("sqlite", "create", table, NoRow, FALSE))
    /\ Abort(FailDDL.disk, 1, "create", TRUE)
    /\ UNCHANGED <<loopRest, loopVars>>
    /\ UNCHANGED auxVars
RecreateTableKeyError ==
    /\ Running("create") /\ "new" \notin queries[table]
    /\ Abort(disk, 1, "keyerror", FALSE)
    /\ UNCHANGED <<loopRest, loopVars, log>>
    /\ UNCHANGED auxVars

\* sqlite_cursor.execute(queries[table]['index']), when the section has one
RecreateIndex ==
    /\ Running("index") /\ HasIndex(table)
    /\ (fileWritable \/ table \in emptyIndex)
    /\ Keep(ExecDDL(work))
    /\ log' = Append(log, Stmt("sqlite", "index", table, NoRow, TRUE))
    /\ pc' = "fetch"
    /\ UNCHANGED <<loopRest, loopVars, exitStatus, failed>>
    /\ UNCHANGED auxVars
    /\ UNCHANGED errorLogged
RecreateIndexFails ==
    /\ Running("index") /\ HasIndex(table) /\ table \notin emptyIndex
    /\ log' = Append(log, Stmt("sqlite", "index", table, NoRow, FALSE))
    /\ Abort(FailDDL.disk, 1, "index", TRUE)
    /\ UNCHANGED <<loopRest, loopVars>>
    /\ UNCHANGED auxVars
SkipIndex ==
    /\ Running("index") /\ ~HasIndex(table)
    /\ pc' = "fetch"
    /\ UNCHANGED <<loopRest, loopVars, destVars, exitStatus, failed, log>>
    /\ UNCHANGED auxVars
    /\ UNCHANGED errorLogged

\* mysql_data = mysql_cursor.fetchall()
FetchAll ==
    /\ Running("fetch")
    /\ mysql_data' = cursorResult
    /\ rowIdx' = 1
    /\ pc' = "write"
    /\ UNCHANGED <<loopRest, destVars, exitStatus, failed, log, tableIdx, cursorResult>>
    /\ UNCHANGED auxVars
    /\ UNCHANGED errorLogged
MoreRows == Running("write") /\ rowIdx <= Len(mysql_data)
row == mysql_data[rowIdx]

\* the row handed to the write statement
BoundRow(r) == r

\* sqlite_cursor.execute(queries[table]['write'], (row))
WriteRow ==
    /\ MoreRows /\ "write" \in queries[table]
    /\ fileWritable /\ work[table] # NoTable
    /\ Keep(ExecDML(InsertRow(work, table, BoundRow(row))))
    /\ log' = Append(log, Stmt("sqlite", "write", table, BoundRow(row), TRUE))
    /\ rowIdx' = rowIdx + 1
    /\ UNCHANGED <<loopRest, pc, exitStatus, failed, tableIdx, cursorResult, mysql_data>>
    /\ UNCHANGED auxVars
    /\ UNCHANGED errorLogged

\* a failed write logged and passed over, the loop going on
WriteRowSkipsBadRow ==
    /\ MoreRows /\ "write" \in queries[table]
    /\ log' = Append(log, Stmt("sqlite", "write", table, BoundRow(row), FALSE))
    /\ rowIdx' = rowIdx + 1
    /\ UNCHANGED <<loopRest, destVars, pc, exitStatus, failed, tableIdx,
                   cursorResult, mysql_data>>
    /\ UNCHANGED auxVars
    /\ UNCHANGED errorLogged

\* the write raising sqlite3.Error: logged, sys.exit(1)
WriteRowFails ==
    /\ MoreRows /\ "write" \in queries[table]
    /\ log' = Append(log, Stmt("sqlite", "write", table, BoundRow(row), FALSE))
    /\ Abort(disk, 1, "write", TRUE)
    /\ UNCHANGED <<loopRest, loopVars>>
    /\ UNCHANGED auxVars
WriteRowKeyError ==
    /\ MoreRows /\ "write" \notin queries[table]
    /\ Abort(disk, 1, "keyerror", FALSE)
    /\ UNCHANGED <<loopRest, loopVars, log>>
    /\ UNCHANGED auxVars

\* the end of the for row loop: on to the next section
TableDone ==
    /\ Running("write") /\ rowIdx > Len(mysql_data)
    /\ tableIdx' = tableIdx + 1
    /\ pc' = "loop"
    /\ UNCHANGED <<loopRest, destVars, exitStatus, failed, log, cursorResult,
                   mysql_data, rowIdx>>
    /\ UNCHANGED auxVars
    /\ UNCHANGED errorLogged

\* -------------------------------------------------- mysql2sqlite.py 370-398
\* sqlite_connection.commit()
Commit ==
    /\ Running("loop") /\ tableIdx > Len(TableOrder)
    /\ disk' = work /\ work' = work /\ inTxn' = FALSE
    /\ commitCount' = commitCount + 1
    /\ log' = Append(log, Stmt("sqlite", "commit", "", NoRow, TRUE))
    /\ pc' = "close_mysql"
    /\ UNCHANGED <<inputs, fsVars, isolation_level, exitStatus, rerun, flagVars,
                   loopVars, connVars, preDisk, startTables, dirExisted, fileExisted, importCount, warned,
                   failed>>
    /\ UNCHANGED auxVars
    /\ UNCHANGED errorLogged
CloseMysql ==
    /\ Running("close_mysql")
    /\ mysqlClosed' = TRUE
    /\ pc' = "close_sqlite"
    /\ UNCHANGED <<inputs, fsVars, destVars, isolation_level, exitStatus, rerun,
                   flagVars, loopVars, mysqlOpen, sqliteOpen, sqliteClosed,
                   log, histVars, failed>>
    /\ UNCHANGED auxVars
    /\ UNCHANGED errorLogged

\* the script ends: exit status 0
CloseSqlite ==
    /\ Running("close_sqlite")
    /\ sqliteClosed' = TRUE
    /\ pc' = "done" /\ exitStatus' = 0
    /\ UNCHANGED <<inputs, fsVars, destVars, isolation_level, rerun,
                   flagVars, loopVars, mysqlOpen, sqliteOpen, mysqlClosed,
                   log, histVars, failed>>
    /\ UNCHANGED auxVars
    /\ UNCHANGED errorLogged

\* the script is started once more, on the file the first run left and on
\* the same source
Rerun ==
    /\ pc = "done" /\ ~rerun
    /\ rerun' = TRUE
    /\ pc' = "start" /\ exitStatus' = -1
    /\ SQLITE_DB_IS_NEW' = FALSE /\ SQLITE_DB_MISSING_TABLES' = FALSE
    /\ DROP_TABLES' = FALSE
    /\ tableIdx' = 1 /\ cursorResult' = <<>> /\ mysql_data' = <<>> /\ rowIdx' = 1
    /\ mysqlOpen' = FALSE /\ sqliteOpen' = FALSE
    /\ mysqlClosed' = FALSE /\ sqliteClosed' = FALSE
    /\ log' = <<>> /\ importCount' = 0 /\ commitCount' = 0
    /\ warned' = FALSE /\ failed' = "none"
    /\ preDisk' = disk /\ startTables' = TableCount(disk)
    /\ dirExisted' = dirExists /\ fileExisted' = fileExists
    /\ verified' = FALSE /\ probeOpen' = 0 /\ errorLogged' = FALSE
    /\ iterOrder' = <<>>
    /\ UNCHANGED <<inputs, fsVars, destVars, isolation_level>>

Next ==
    \/ LoadSettings \/ LoadSettingsFails
    \/ open_db_connection \/ open_db_connection_fails
    \/ CheckIsNew \/ verify_sqlite_storage
    \/ ConnectSqlite \/ ConnectSqliteFails
    \/ Probe1
    \/ import_sqlite_db_schema \/ import_sqlite_db_schema_KeyError \/ SkipImport
    \/ CheckAutocommit \/ Probe2
    \/ ReadSource \/ ReadSourceFails \/ ReadSourceKeyError
    \/ DropTable \/ DropTableFails
    \/ RecreateTable \/ RecreateTableFails \/ RecreateTableKeyError
    \/ RecreateIndex \/ RecreateIndexFails \/ SkipIndex
    \/ FetchAll
    \/ WriteRow \/ WriteRowFails \/ WriteRowKeyError
    \/ TableDone
    \/ Commit \/ CloseMysql \/ CloseSqlite
    \/ Rerun

Spec == Init /\ [][Next]_vars
SpecAutocommit == InitAutocommit /\ [][Next]_vars

\* ================================================================= claims
StatementFailures == {"import", "drop", "create", "index", "write"}
ScriptOps == {"script_create", "script_index"}
RowWritten == \E n \in 1..Len(log) : log[n].op = "write" /\ log[n].ok
Succeeded == pc = "done"
BeforeGate == {"start", "open_mysql", "check_new", "verify", "connect", "probe1", "import"}

\* C1 (as claimed): a run that hits a fatal error in the schema import or in
\* the per-table loop commits nothing: once the process has exited, the
\* committed destination equals the committed destination before the run.
C1_AllOrNothing ==
    (pc = "exit" /\ failed \in StatementFailures)
        => (commitCount = 0 /\ disk = preDisk)

\* C2 (as claimed): the destination is committed exactly once per successful
\* run and not before the last row of the last table is written: until the
\* run's commit the committed state is the pre-run state, and a finished run
\* has committed once.
C2_SingleFinalCommit ==
    /\ (failed = "none" /\ commitCount = 0 => disk = preDisk)
    /\ (Succeeded => commitCount = 1)

\* C3: schema-import gating.  The import is never invoked twice; a run that
\* started on a destination with at least one table never invokes it; a run
\* that started on a destination without tables has invoked it exactly once
\* as soon as it is past the gate, so before any row is written.
C3_SchemaImportGating ==
    /\ importCount <= 1
    /\ (startTables > 0 => importCount = 0)
    /\ (startTables = 0 /\ pc \notin BeforeGate \cup {"exit"} => importCount = 1)
    /\ \A n \in 1..Len(log) :
         (startTables = 0 /\ log[n].op \notin ScriptOps)
            => /\ importCount = 1
               /\ \E m \in 1..(n - 1) : log[m].op = "script_create"

\* a run on a table-less destination that imported the schema and wrote a row
C3_Witness ==
    /\ startTables = 0 /\ importCount = 1 /\ RowWritten

\* C4: row fidelity.  After a successful run every catalog table holds
\* exactly the rows its source read returned, each once, unchanged and in
\* the order read, whatever the table held before.
C4_RowFidelity ==
    Succeeded => \A t \in Tables : disk[t] = TableOf(source[t])

\* a successful run over a table that held a stale row and whose source
\* returned more than one row
C4_Witness ==
    /\ Succeeded /\ ~rerun
    /\ Len(source["users"]) >= 2
    /\ preDisk["users"].exists /\ <<9, "Old">> \in Range(preDisk["users"].rows)

\* C5: drop semantics.  After a successful run with DROP_TABLES set, a row
\* the destination table held before the run is in the table only if the
\* source read returned it.
C5_DropSemantics ==
    (Succeeded /\ DROP_TABLES)
        => \A t \in Tables : \A r \in Range(preDisk[t].rows) :
              r \in Range(disk[t].rows) => r \in Range(source[t])

\* a successful dropping run: one stale row gone, one row of the old table
\* back because the source returned it
C5_Witness ==
    /\ Succeeded /\ DROP_TABLES /\ ~rerun
    /\ \E t \in Tables : \E r \in Range(preDisk[t].rows) : r \notin Range(disk[t].rows)
    /\ \E t \in Tables : \E r \in Range(preDisk[t].rows) : r \in Range(disk[t].rows)

\* C6: idempotent full mirror.  After the first successful run and after
\* the second, every catalog table is set-equal to the source's rows and
\* has as many rows as the source returned; the second run leaves the
\* catalog tables as the first left them.
C6_IdempotentMirror ==
    Succeeded =>
        \A t \in Tables :
            /\ disk[t].exists
            /\ Range(disk[t].rows) = Range(source[t])
            /\ Len(disk[t].rows) = Len(source[t])
            /\ (rerun => disk[t] = preDisk[t])

\* the second of two successful runs, over a source with rows
C6_Witness ==
    /\ Succeeded /\ rerun
    /\ \A t \in Tables : Len(source[t]) > 0

\* C7: abort on first failure.  A statement that failed is the last
\* statement handed to either connection; the run has ended, with nonzero
\* status and without a commit.
C7_AbortOnFirstFailure ==
    \A n \in 1..Len(log) :
        ~log[n].ok =>
            /\ n = Len(log)
            /\ pc = "exit" /\ exitStatus # 0
            /\ commitCount = 0
            /\ \A m \in 1..Len(log) : log[m].op # "commit"

\* a run ended by the failed write of a row that was not the table's last,
\* with a table still to come
C7_Witness ==
    /\ Len(log) > 0 /\ ~log[Len(log)].ok /\ log[Len(log)].op = "write"
    /\ tableIdx < Len(TableOrder)
    /\ rowIdx < Len(mysql_data)

\* C8 (as claimed): a catalog with a section lacking read, new or write is
\* refused when it is loaded: no connection is opened and no statement runs.
C8_CatalogValidated ==
    (\E t \in Tables : ~(RequiredFields \subseteq queries[t]))
        => /\ pc \in {"start", "exit"}
           /\ ~mysqlOpen /\ ~sqliteOpen
           /\ log = <<>>

\* C9 (as claimed): when the process has ended, every connection it opened
\* has been closed.
C9_ConnectionsReleased ==
    pc \in {"done", "exit"}
        => /\ (mysqlOpen => mysqlClosed)
           /\ (sqliteOpen => sqliteClosed)

C11_OptionalIndex ==
    \A n \in 1..Len(log) :
        log[n].op \in {"index", "script_index"} => IndexHasContent(log[n].table)

\* C12 (as claimed): a run ended by a source read failure, a schema import
\* failure, a drop, create or index failure, a row write failure or a
\* storage failure has logged the condition and exits with nonzero status;
\* exit status 0 belongs to runs that mirrored every table and committed.
C12_FatalReporting ==
    /\ (pc = "exit" /\ failed \in StatementFailures \cup {"read", "storage"})
            => (errorLogged /\ exitStatus # 0)
    /\ (exitStatus = 0 => commitCount = 1 /\ tableIdx > Len(TableOrder))

\* ------------------------------------------- lib: verify_sqlite_storage alone
\* the function called on any state of base_dir, db_file and the two flags
\* (base_dir and db_file are separate settings, so either may be missing)
InitVerify ==
    /\ isolation_level = ""
    /\ dirExists \in BOOLEAN /\ dirWritable \in BOOLEAN
    /\ (~dirExists => ~dirWritable)
    /\ fileExists \in BOOLEAN /\ fileWritable \in BOOLEAN
    /\ (~fileExists => ~fileWritable)
    /\ disk \in (IF fileExists THEN {NoTables, StaleDisk} ELSE {NoTables})
    /\ create_directories \in BOOLEAN
    /\ fail_on_warnings \in BOOLEAN
    /\ queries = [t \in Tables |-> FullSection]
    /\ source \in {FullSource, [t \in Tables |-> <<>>]}
    /\ legacyDDL \in BOOLEAN
    /\ emptyIndex = {}
    /\ promptFinalize \in BOOLEAN
    /\ pc = "verify" /\ exitStatus = -1 /\ rerun = FALSE
    /\ SQLITE_DB_IS_NEW = ~fileExists /\ SQLITE_DB_MISSING_TABLES = FALSE
    /\ DROP_TABLES = FALSE
    /\ tableIdx = 1 /\ cursorResult = <<>> /\ mysql_data = <<>> /\ rowIdx = 1
    /\ mysqlOpen = TRUE /\ sqliteOpen = FALSE
    /\ mysqlClosed = FALSE /\ sqliteClosed = FALSE
    /\ log = <<>> /\ importCount = 0 /\ commitCount = 0
    /\ warned = FALSE /\ failed = "none"
    /\ work = disk /\ inTxn = FALSE
    /\ preDisk = disk /\ startTables = TableCount(disk)
    /\ dirExisted = dirExists /\ fileExisted = fileExists
    /\ verified = FALSE /\ probeOpen = 0 /\ errorLogged = FALSE
    /\ iterOrder \in IterationOrders

SpecVerify == InitVerify /\ [][verify_sqlite_storage]_vars

\* C13: verify_sqlite_storage returns exactly when (directory and file exist,
\* file writable) or (directory exists, file absent, directory writable) or
\* (directory absent, fail_on_warnings unset, create_directories set, and the
\* directory was created); in every other case the process ends with a
\* nonzero status; the function is never entered a second time.
C13_StoragePreflight ==
    verified =>
        /\ pc \in {"connect", "exit"}
        /\ (pc = "connect") <=>
              \/ dirExisted /\ fileExisted /\ fileWritable
              \/ dirExisted /\ ~fileExisted /\ dirWritable
              \/ ~dirExisted /\ ~fail_on_warnings /\ create_directories /\ dirExists
        /\ (pc = "exit") => (failed = "storage" /\ exitStatus # 0)
        /\ (~dirExisted /\ fail_on_warnings) => (pc = "exit" /\ ~dirExists)

\* the directory was missing, was created, and the function returned
C13_Witness ==
    /\ verified /\ pc = "connect"
    /\ ~dirExisted /\ dirExists /\ create_directories /\ ~fail_on_warnings

\* C14 (as claimed): every has-tables probe has released its connection by
\* the time it returns, so no probe connection is open while the schema
\* import, the mirror loop or the commit executes.
C14_ProbeReleased ==
    pc \in {"import", "loop", "drop", "create", "index", "fetch", "write"}
        => probeOpen = 0

\* ------------------------------------------------------ statement ordering
LoopOps == {"read", "drop", "create", "index", "write"}
Rank(op) ==
    CASE op = "read" -> 1 [] op = "drop" -> 2 [] op = "create" -> 3
      [] op = "index" -> 4 [] op = "write" -> 5
PosIn(order, t) == CHOOSE n \in 1..Len(order) : order[n] = t
CountUpTo(n, op, t) ==
    Cardinality({m \in 1..n : log[m].op = op /\ (t = "" \/ log[m].table = t)})

\* the statements of the loop follow `order` table by table and, within a
\* table, read, drop, create, index, writes in the order of the source rows
Ordered(order) ==
    /\ \A n \in 1..Len(log) :
          log[n].op = "read" => CountUpTo(n, "read", "") = PosIn(order, log[n].table)
    /\ \A m, n \in 1..Len(log) :
          (m < n /\ log[m].op \in LoopOps /\ log[n].op \in LoopOps) =>
              /\ PosIn(order, log[m].table) <= PosIn(order, log[n].table)
              /\ log[m].table = log[n].table =>
                    \/ Rank(log[m].op) < Rank(log[n].op)
                    \/ log[m].op = "write" /\ log[n].op = "write"
    /\ \A n \in 1..Len(log) :
          /\ log[n].op \in {"drop", "create", "index"} => DROP_TABLES
          /\ log[n].op = "create" =>
                (n > 1 /\ log[n-1].op = "drop" /\ log[n-1].table = log[n].table)
          /\ log[n].op = "index" =>
                (n > 1 /\ log[n-1].op = "create" /\ log[n-1].table = log[n].table
                       /\ HasIndex(log[n].table))
          /\ log[n].op = "write" =>
                LET t == log[n].table
                    k == CountUpTo(n, "write", t)
                    first == n - k + 1
                IN /\ k <= Len(source[t]) /\ log[n].row = source[t][k]
                   /\ first > 1
                   /\ log[first-1].table = t
                   /\ log[first-1].op =
                         (IF ~DROP_TABLES THEN "read"
                          ELSE IF HasIndex(t) THEN "index" ELSE "create")

\* C15 (as claimed): tables are mirrored one after another in the order the
\* catalog declares them; per table the statements run as read, then (only
\* when DROP_TABLES) drop, create, index if there is one, then the row writes
\* in source order; a create directly follows the drop of the same table and
\* no statement of a later table precedes a statement of an earlier one.
C15_StatementOrdering == Ordered(TableOrder)

\* ------------------------------------------------------------ drop policy
BeforeLoop ==
    pc \in {"start", "open_mysql", "check_new", "verify", "connect", "probe1",
            "import", "autocommit", "probe2"}
PastDecision ==
    pc \in {"loop", "drop", "create", "index", "fetch", "write",
            "close_mysql", "close_sqlite", "done"}

\* C16: DROP_TABLES is decided after the optional schema import and before
\* the first table of the loop, as "the destination has a table", and stays
\* as decided; a run that imported the schema has DROP_TABLES set, and every
\* row written to a table the import created comes after a drop and a
\* create of that table that followed the import.
C16_DropPolicy ==
    /\ BeforeLoop => (~DROP_TABLES /\ \A n \in 1..Len(log) : log[n].op \notin LoopOps)
    /\ PastDecision => (DROP_TABLES <=> (startTables > 0 \/ importCount > 0))
    /\ (PastDecision /\ importCount > 0) => DROP_TABLES
    /\ \A m, n \in 1..Len(log) :
          (m < n /\ log[m].op = "script_create" /\ log[n].op = "write"
                 /\ log[m].table = log[n].table) =>
              \E d, c \in 1..Len(log) :
                  /\ m < d /\ d < c /\ c < n
                  /\ log[d].op = "drop" /\ log[d].ok /\ log[d].table = log[n].table
                  /\ log[c].op = "create" /\ log[c].ok /\ log[c].table = log[n].table

\* a run that imported the schema and has written a row
C16_Witness ==
    /\ importCount > 0 /\ DROP_TABLES
    /\ \E n \in 1..Len(log) : log[n].op = "write" /\ log[n].ok

\* ------------------------------------------------------- preflight gating
PastPreflight ==
    \/ pc \in {"connect", "probe1", "import", "autocommit", "probe2", "loop",
               "drop", "create", "index", "fetch", "write", "close_mysql",
               "close_sqlite", "done"}
    \/ pc = "exit" /\ failed \notin {"config", "connect_mysql"}

====
